---- MODULE Spec2Model ----
(***************************************************************************)
(* Model of the Vibium accessibility scanner                               *)
(* (src/src/vibium/accessibility-scanner.ts): the fix template engine      *)
(* generateFix, the caption template generateCaptionFix, the tag resolver  *)
(* getWcagTags and the scan() orchestrator with its keyboard walk.         *)
(*                                                                         *)
(* JavaScript strings that are interpolated into generated text are        *)
(* sequences of tokens; the empty string is the empty sequence, so the     *)
(* falsy test of `x || y` on a string is Len(x) = 0.  Generated text is    *)
(* the sequence of its non-blank line fragments, in order.  An optional    *)
(* value (a field that may be undefined) is None or Some(v).               *)
(***************************************************************************)
EXTENDS Integers, Sequences, FiniteSets, TLC

None == <<>>
Some(x) == <<x>>
IsNone(o) == Len(o) = 0
Val(o) == o[1]

\* a plain string as interpolated text: '' contributes nothing
Str(s) == IF s = "" THEN <<>> ELSE <<s>>

Range(s) == {s[k] : k \in 1..Len(s)}

\* zero-based array read arr[i]: undefined when out of range
JsAt(arr, i) == IF i >= 0 /\ i < Len(arr) THEN Some(arr[i + 1]) ELSE None

\* String.prototype.replace(/\/?>/, repl): the leftmost `>` together with a
\* `/` directly before it is replaced once; no match leaves html as it is.
\* html is tokenised so that `/` and `>` are tokens of their own.
replace(html, repl) ==
  LET gts == {p \in 1..Len(html) : html[p] = ">"}
  IN  IF gts = {} THEN html
      ELSE LET p == CHOOSE q \in gts : \A r \in gts : q <= r
               start == IF p > 1 /\ html[p - 1] = "/" THEN p - 1 ELSE p
           IN  SubSeq(html, 1, start - 1) \o repl \o SubSeq(html, p + 1, Len(html))

\* own keys of the `fixes` object literal
FixKeys == {"color-contrast", "label", "image-alt", "button-name", "link-name", "html-has-lang", "landmark-one-main", "region", "heading-order", "focus-order-semantics", "target-size"}

\* properties every object literal inherits from Object.prototype; reading
\* one of them through fixes[key] yields a truthy non-string value
ObjectPrototypeKeys == {"constructor", "toString", "valueOf", "hasOwnProperty", "__proto__"}

\* the template literals of `fixes`, evaluated for one violation
fixes(html, target, ratio) ==
  [k \in FixKeys |->
     CASE
           k = "color-contrast" ->
       <<"/* Fix: Insufficient color contrast */",
         "/* Current ratio: ">>
       \o ratio
       \o <<" (required: 4.5:1 for normal text, 3:1 for large text) */",
         "/* WCAG: 1.4.3 Contrast (Minimum) Level AA */",
         "/* Option 1: Darken text color */">>
       \o target
       \o <<" {",
         "  color: #1a1a1a; /* Higher contrast dark color */",
         "}",
         "/* Option 2: Lighten background */">>
       \o target
       \o <<" {",
         "  background-color: #ffffff;",
         "}",
         "/* Option 3: Both adjustments */">>
       \o target
       \o <<" {",
         "  color: #333333;",
         "  background-color: #fafafa;",
         "}">>
        [] k = "label" ->
       <<"<!-- Fix: Form input missing label -->",
         "<!-- WCAG: 1.3.1 Info and Relationships, 4.1.2 Name, Role, Value -->",
         "<!-- Before: -->">>
       \o html
       \o <<"<!-- After: Add explicit label -->",
         "<label for=\"input-id\">",
         "  Descriptive Label Text",
         "</label>",
         "<input type=\"text\" id=\"input-id\" name=\"field-name\" />",
         "<!-- Or use aria-label for visual hiding -->",
         "<input",
         "  type=\"text\"",
         "  aria-label=\"Descriptive label for screen readers\"",
         "  placeholder=\"Visual placeholder\"",
         "/>">>
        [] k = "image-alt" ->
       <<"<!-- Fix: Image missing alternative text -->",
         "<!-- WCAG: 1.1.1 Non-text Content Level A -->",
         "<!-- Before: -->">>
       \o html
       \o <<"<!-- After: Add descriptive alt text -->">>
       \o replace(html, <<" alt=\"[Describe the image content and purpose]\" />">>)
       \o <<"<!-- For decorative images only: -->">>
       \o replace(html, <<" alt=\"\" role=\"presentation\" />">>)
        [] k = "button-name" ->
       <<"<!-- Fix: Button has no accessible name -->",
         "<!-- WCAG: 4.1.2 Name, Role, Value Level A -->",
         "<!-- Before: -->">>
       \o html
       \o <<"<!-- Option 1: Add visible text -->",
         "<button type=\"button\">",
         "  Click to Submit",
         "</button>",
         "<!-- Option 2: Add aria-label (for icon-only buttons) -->",
         "<button type=\"button\" aria-label=\"Submit form\">",
         "  <svg aria-hidden=\"true\"><!-- icon --></svg>",
         "</button>",
         "<!-- Option 3: Use aria-labelledby -->",
         "<button type=\"button\" aria-labelledby=\"btn-label\">",
         "  <span id=\"btn-label\" class=\"visually-hidden\">Submit form</span>",
         "  <svg aria-hidden=\"true\"><!-- icon --></svg>",
         "</button>">>
        [] k = "link-name" ->
       <<"<!-- Fix: Link has no accessible name -->",
         "<!-- WCAG: 2.4.4 Link Purpose, 4.1.2 Name, Role, Value -->",
         "<!-- Before: -->">>
       \o html
       \o <<"<!-- After: Add descriptive text -->",
         "<a href=\"/destination\">",
         "  Descriptive Link Text",
         "</a>",
         "<!-- For icon links: -->",
         "<a href=\"/destination\" aria-label=\"View user profile\">",
         "  <svg aria-hidden=\"true\"><!-- icon --></svg>",
         "</a>">>
        [] k = "html-has-lang" ->
       <<"<!-- Fix: Page missing language attribute -->",
         "<!-- WCAG: 3.1.1 Language of Page Level A -->",
         "<!-- Before: -->",
         "<html>",
         "<!-- After: Add lang attribute -->",
         "<html lang=\"en\">",
         "<!-- Use appropriate language code: en, es, fr, de, zh, etc. -->">>
        [] k = "landmark-one-main" ->
       <<"<!-- Fix: Page should have one main landmark -->",
         "<!-- WCAG: 1.3.1 Info and Relationships -->",
         "<!-- Add main landmark to page content -->",
         "<body>",
         "  <header>...</header>",
         "  <nav>...</nav>",
         "  <main id=\"main-content\">",
         "    <!-- Primary page content here -->",
         "  </main>",
         "  <footer>...</footer>",
         "</body>">>
        [] k = "region" ->
       <<"<!-- Fix: Content not contained in a landmark region -->",
         "<!-- WCAG: 1.3.1 Info and Relationships -->",
         "<!-- Wrap content in appropriate landmarks -->",
         "<header role=\"banner\">",
         "  <!-- Site header content -->",
         "</header>",
         "<nav role=\"navigation\" aria-label=\"Main\">",
         "  <!-- Navigation links -->",
         "</nav>",
         "<main role=\"main\">",
         "  <!-- Primary content -->",
         "</main>",
         "<aside role=\"complementary\">",
         "  <!-- Secondary content -->",
         "</aside>",
         "<footer role=\"contentinfo\">",
         "  <!-- Footer content -->",
         "</footer>">>
        [] k = "heading-order" ->
       <<"<!-- Fix: Heading levels should only increase by one -->",
         "<!-- WCAG: 1.3.1 Info and Relationships -->",
         "<!-- Don't skip from h1 to h3, or h2 to h4 -->",
         "<!-- Before (incorrect): -->",
         "<h1>Page Title</h1>",
         "<h3>Subsection</h3>  <!-- Skipped h2! -->",
         "<!-- After (correct): -->",
         "<h1>Page Title</h1>",
         "<h2>Section</h2>",
         "<h3>Subsection</h3>">>
        [] k = "focus-order-semantics" ->
       <<"<!-- Fix: Focus order should follow logical reading order -->",
         "<!-- WCAG: 2.4.3 Focus Order Level A -->",
         "/* Avoid positive tabindex values */",
         "/* Before (incorrect): */",
         "<button tabindex=\"3\">Third</button>",
         "<button tabindex=\"1\">First</button>",
         "<button tabindex=\"2\">Second</button>",
         "/* After (correct - use DOM order): */",
         "<button>First</button>",
         "<button>Second</button>",
         "<button>Third</button>",
         "/* Use tabindex=\"0\" for custom focusable elements */",
         "<div role=\"button\" tabindex=\"0\">Custom Button</div>",
         "/* Use tabindex=\"-1\" for programmatic focus only */",
         "<div tabindex=\"-1\" id=\"error-message\">Error!</div>">>
        [] k = "target-size" ->
       <<"<!-- Fix: Target size too small for touch -->",
         "<!-- WCAG: 2.5.8 Target Size (Minimum) Level AA -->",
         "<!-- Minimum 24x24 CSS pixels -->",
         "/* Before: */",
         ".small-button {",
         "  width: 16px;",
         "  height: 16px;",
         "}",
         "/* After: Meet minimum 24x24px */",
         ".accessible-button {",
         "  min-width: 24px;",
         "  min-height: 24px;",
         "  /* Or better: 44x44px for comfortable touch */",
         "  min-width: 44px;",
         "  min-height: 44px;",
         "}">>
  ]

\* the generic template of the `||` fallback
fallback(violation, html) ==
     <<"/* Manual fix required for: ">>
     \o Str(violation.id)
     \o <<" */",
       "/* Description: ">>
     \o Str(violation.description)
     \o <<" */",
       "/* Help: ">>
     \o Str(violation.helpUrl)
     \o <<" */",
       "/* Impact: ">>
     \o Str(violation.impact)
     \o <<" */",
       "/* Affected element: */">>
     \o html
     \o <<"/* Recommendation: */",
       "/* ">>
     \o Str(violation.help)
     \o <<" */">>

TypeError == [outcome |-> "throw", type |-> "TypeError", text |-> <<>>]
Returned(type, text) == [outcome |-> "return", type |-> type, text |-> text]

\* fixes[violation.id]: own property, inherited property, or undefined
lookup(table, key) ==
  IF key \in DOMAIN table THEN Returned("string", table[key])
  ELSE IF key = "__proto__" THEN Returned("object", <<>>)
  ELSE IF key \in ObjectPrototypeKeys THEN Returned("function", <<>>)
  ELSE Returned("undefined", <<>>)

generateFix(violation) ==
  LET node == JsAt(violation.nodes, 0)
  IN  IF ~IsNone(node) /\ IsNone(Val(node).target)
      THEN TypeError   \* node?.target[0] reads [0] of undefined
      ELSE
        LET html == IF IsNone(node) \/ IsNone(Val(node).html) THEN <<>>
                    ELSE Val(Val(node).html)
            t0 == IF IsNone(node) THEN None ELSE JsAt(Val(Val(node).target), 0)
            target == IF IsNone(t0) THEN <<>> ELSE Val(t0)
            data == IF IsNone(node) THEN None ELSE Val(node).data
            r0 == IF IsNone(data) THEN None ELSE Val(data).ratio
            ratio == IF IsNone(r0) \/ Len(Val(r0)) = 0 THEN <<"unknown">> ELSE Val(r0)
            found == lookup(fixes(html, target, ratio), violation.id)
        IN  IF found.type = "undefined" \/ (found.type = "string" /\ Len(found.text) = 0)
            THEN Returned("string", fallback(violation, html))
            ELSE found

\* Array.prototype.join over token sequences: the pieces separated by sep
RECURSIVE join(_, _)
join(pieces, sep) ==
  IF Len(pieces) = 0 THEN <<>>
  ELSE IF Len(pieces) = 1 THEN pieces[1]
  ELSE pieces[1] \o <<sep>> \o join(Tail(pieces), sep)

\* A URL is kept as String.prototype.split('/') sees it: a non-empty sequence
\* of segments, each segment the non-empty sequence of its '.'-separated
\* parts ('' is the one part "").
SegText(seg) == join([k \in 1..Len(seg) |-> Str(seg[k])], ".")
PathText(path) == join([k \in 1..Len(path) |-> SegText(path[k])], "/")

\* seg.replace(/\.[^.]+$/, ''): drops a final '.ext' whose ext is not empty
stripExt(seg) ==
  IF Len(seg) >= 2 /\ seg[Len(seg)] # "" THEN SubSeq(seg, 1, Len(seg) - 1) ELSE seg

generateCaptionFix(video) ==
  LET src == PathText(video.src)
      stem == SegText(stripExt(video.src[Len(video.src)]))
      filename == IF Len(stem) = 0 THEN <<"video">> ELSE stem
  IN <<"<!-- Video missing captions: ">>
     \o src
     \o <<" -->",
       "<!-- WCAG: 1.2.2 Captions (Prerecorded) Level A -->",
       "<!-- WCAG: 1.2.3 Audio Description or Media Alternative Level A -->",
       "<!-- Before: -->",
       "<video src=\"">>
     \o src
     \o <<"\"></video>",
       "<!-- After: Add caption and description tracks -->",
       "<video src=\"">>
     \o src
     \o <<"\" controls>",
       "  <!-- Captions for deaf/hard-of-hearing users -->",
       "  <track",
       "    kind=\"captions\"",
       "    src=\"/captions/">>
     \o filename
     \o <<".vtt\"",
       "    srclang=\"en\"",
       "    label=\"English Captions\"",
       "    default",
       "  />",
       "  <!-- Subtitles for non-native speakers (optional) -->",
       "  <track",
       "    kind=\"subtitles\"",
       "    src=\"/subtitles/">>
     \o filename
     \o <<"-es.vtt\"",
       "    srclang=\"es\"",
       "    label=\"Spanish Subtitles\"",
       "  />",
       "  <!-- Audio descriptions for blind users (optional but recommended) -->",
       "  <track",
       "    kind=\"descriptions\"",
       "    src=\"/descriptions/">>
     \o filename
     \o <<"-descriptions.vtt\"",
       "    srclang=\"en\"",
       "    label=\"Audio Descriptions\"",
       "  />",
       "  <!-- Fallback for browsers that don't support video -->",
       "  <p>",
       "    Your browser doesn't support HTML5 video.",
       "    <a href=\"">>
     \o src
     \o <<"\">Download the video</a> or",
       "    <a href=\"/transcripts/">>
     \o filename
     \o <<".html\">read the transcript</a>.",
       "  </p>",
       "</video>",
       "<!-- WebVTT Caption File Template (">>
     \o filename
     \o <<".vtt): -->",
       "<!--",
       "WEBVTT",
       "1",
       "00:00:00.000 --> 00:00:03.000",
       "[Speaker name] First line of dialogue.",
       "2",
       "00:00:03.500 --> 00:00:07.000",
       "Second line of dialogue continues here.",
       "3",
       "00:00:07.500 --> 00:00:10.000",
       "[Sound effect description in brackets]",
       "-->">>

Append3(s, a, b, c) == s \o <<a, b, c>>
Append2(s, a, b) == s \o <<a, b>>

\* variant of getWcagTags: each level's tags replace the lower levels' tags
getWcagTagsReplacing(level) ==
  IF level = "AAA" THEN <<"wcag2aaa", "wcag21aaa">>
  ELSE IF level = "AA" THEN <<"wcag2aa", "wcag21aa", "wcag22aa">>
  ELSE <<"wcag2a", "wcag21a">>

getWcagTags(level) ==
  LET baseTags == <<"wcag2a", "wcag21a">>
      withAA == IF level = "AA" \/ level = "AAA"
                THEN Append3(baseTags, "wcag2aa", "wcag21aa", "wcag22aa")
                ELSE baseTags
  IN  IF level = "AAA" THEN Append2(withAA, "wcag2aaa", "wcag21aaa") ELSE withAA

(***************************************************************************)
(* Inputs: what the caller passes and what the browser page answers.       *)
(***************************************************************************)
MaxPrefix == 3
TickMs == 30000
MaxClock == 90000

DefaultTimeout == 60000
TabBudget == 30

\* the object the active-element script returns for a focused element
Element(id, hasFocusIndicator) ==
  [tagName |-> "BUTTON", id |-> id, className |-> "", text |-> "",
   hasFocusIndicator |-> hasFocusIndicator]

\* what one evaluate of the active-element script can return: null when
\* nothing (or the body) has focus, else the element's description
Observations ==
  {None} \cup {Some(Element(id, TRUE)) : id \in {"", "a", "b"}}
         \cup {Some(Element("a", FALSE))}

SeqsUpTo(S, n) == UNION {[1..m -> S] : m \in 0..n}

\* a page's focus behaviour: the observations after the first Tab presses,
\* then what every further Tab press shows: "trap" keeps focus where the
\* prefix left it, "cycle" alternates between two elements, "body" leaves
\* focus on no element
FocusPages(n) == [prefix : SeqsUpTo(Observations, n), tail : {"trap", "cycle", "body"}]

\* the active element after Tab press number k + 1
ObsAt(focus, k) ==
  IF k < Len(focus.prefix) THEN focus.prefix[k + 1]
  ELSE CASE focus.tail = "body" -> None
         [] focus.tail = "trap" ->
              IF Len(focus.prefix) = 0 THEN None ELSE focus.prefix[Len(focus.prefix)]
         [] focus.tail = "cycle" ->
              Some(Element(IF (k - Len(focus.prefix)) % 2 = 0 THEN "p" ELSE "q", TRUE))

ImgHtml == <<"<img src=\"logo.png\"", "/", ">">>
InputHtml == <<"<input type=\"text\"", ">">>

Node(html, target, data) ==
  [html |-> html, target |-> target, failureSummary |-> "Fix any of the following", data |-> data]

\* nodes as the rule engine may deliver them, complete or with fields missing
Nodes ==
  {Node(h, t, d) :
     h \in {None, Some(<<>>), Some(ImgHtml), Some(InputHtml)},
     t \in {None, Some(<<>>), Some(<< <<".low-contrast-text">> >>)},
     d \in {None, Some([ratio |-> None]), Some([ratio |-> Some(<<"2.1">>)])}}

RuleIds == FixKeys \cup ObjectPrototypeKeys \cup {"aria-roles", ""}

Violation(id, nodes) ==
  [id |-> id, impact |-> "serious", description |-> "Ensures the rule holds",
   help |-> "Elements must pass", helpUrl |-> "https://dequeuniversity.com/rules/axe/4.8/rule",
   tags |-> << <<"wcag", "2aa">>, <<"cat.", "color">>, <<"wcag", "143">> >>, nodes |-> nodes]

\* violation.nodes: no node, or one
NodeLists == {<<>>} \cup {<<n>> : n \in Nodes}

Track == [kind |-> "captions", label |-> "English", src |-> "/captions/intro.vtt"]

\* a media element as the detection script describes it
VideoInfo(type, src, hasTrack) ==
  [type |-> type, src |-> src, hasTrack |-> hasTrack,
   trackKinds |-> IF hasTrack THEN <<Track>> ELSE <<>>]

VideoSrcs ==
  { << <<"">> >>,
    << <<"">>, <<"media">>, <<"intro", "mp4">> >>,
    << <<"">>, <<"media">>, <<"", "mp4">> >>,
    << <<"https:">>, <<"">>, <<"www", "youtube", "com">>, <<"embed">>, <<"x1">> >> }

VideoInfos ==
  {VideoInfo("VIDEO", s, h) : s \in VideoSrcs, h \in BOOLEAN}
    \cup {VideoInfo("IFRAME", s, FALSE) : s \in VideoSrcs}

Levels == {"A", "AA", "AAA"}

\* what axe.run resolves to
AxeResponse(violations) ==
  [violations |-> violations, passes |-> 2, incomplete |-> 1, inapplicable |-> 0]

Good == Node(Some(ImgHtml), Some(<< <<".low-contrast-text">> >>), Some([ratio |-> Some(<<"2.1">>)]))
NoTarget == Node(Some(InputHtml), None, None)

ScanAxe ==
  {AxeResponse(<<>>),
   AxeResponse(<<Violation("color-contrast", <<Good>>), Violation("aria-roles", <<>>)>>),
   AxeResponse(<<Violation("label", <<NoTarget>>)>>)}

ScanVideos ==
  {<<>>,
   <<VideoInfo("VIDEO", << <<"">>, <<"media">>, <<"intro", "mp4">> >>, FALSE)>>,
   <<VideoInfo("VIDEO", << <<"">>, <<"media">>, <<"intro", "mp4">> >>, TRUE),
     VideoInfo("IFRAME", << <<"">> >>, FALSE)>>}

ScanFocus ==
  {[prefix |-> <<Some(Element("a", TRUE)), Some(Element("b", FALSE))>>, tail |-> "trap"],
   [prefix |-> <<None>>, tail |-> "cycle"],
   [prefix |-> <<>>, tail |-> "body"]}

Page(focus, axe, videos) == [focus |-> focus, axe |-> axe, videos |-> videos]

\* VibiumScanConfig as a caller writes it
ConfigInput(level, kb, vid, wait, timeout) ==
  [url |-> "https://example.com", wcagLevel |-> level, includeKeyboardTest |-> kb,
   includeVideoCheck |-> vid, waitForSelector |-> wait, timeout |-> timeout]

\* constructor: the defaults, overridden by what the caller gave
Constructor(cfg) ==
  [url |-> cfg.url, wcagLevel |-> cfg.wcagLevel,
   includeKeyboardTest |-> cfg.includeKeyboardTest,
   includeVideoCheck |-> cfg.includeVideoCheck,
   waitForSelector |-> cfg.waitForSelector,
   timeout |-> IF IsNone(cfg.timeout) THEN DefaultTimeout ELSE Val(cfg.timeout)]

(***************************************************************************)
(* State.                                                                  *)
(***************************************************************************)
VARIABLES
  config,       \* this.config
  page,         \* the page the browser is driven against
  pc,           \* where scan() stands
  session,      \* the session browser.launch() returned: none, open, closed
  outstanding,  \* the interaction scan() is awaiting, or "none"
  calls,        \* the interactions issued on the session, in order
  i,            \* loop counter of runKeyboardTest
  results,      \* `results` of runKeyboardTest
  result,       \* `result` of scan()
  pending,      \* the error the try block completed with, if any
  ret,          \* what scan() resolved to
  error,        \* what scan() rejected with
  failure,      \* the interaction that rejected, if one did
  clock,        \* milliseconds since scan() was called
  call,         \* the last call of an exported function: name, argument, result
  self,         \* which invocation of scan() is running
  suspended,    \* the locals of the other invocation of scan(), if there is one
  vibe,         \* `vibe` of scan(): the session launch() returned, 0 before that
  sessions,     \* per session the browser launched: the interactions issued on it
  flight        \* the interactions issued on a session and not yet settled

vars == <<config, page, pc, session, outstanding, calls, i, results, result,
          pending, ret, error, failure, clock, call,
          self, suspended, vibe, sessions, flight>>

scanVars == <<config, page, pc, session, outstanding, calls, i, results, result,
              pending, ret, error, failure, clock,
              self, suspended, vibe, sessions, flight>>

EmptyWalk == [tabOrder |-> <<>>, focusTraps |-> <<>>, missingFocusIndicators |-> <<>>]
EmptyResult == [results |-> None, fixes |-> <<>>, keyboard |-> None, videos |-> None]
NoCall == [fn |-> "none", arg |-> None, ret |-> None]

StartWith(cfg, pg, other) ==
  /\ config = Constructor(cfg)
  /\ page = pg
  /\ pc = "start"
  /\ session = "none"
  /\ outstanding = "none"
  /\ calls = <<>>
  /\ i = 0
  /\ results = EmptyWalk
  /\ result = EmptyResult
  /\ pending = None
  /\ ret = None
  /\ error = None
  /\ failure = None
  /\ clock = 0
  /\ call = NoCall
  /\ self = 1
  /\ suspended = other
  /\ vibe = 0
  /\ sessions = <<>>
  /\ flight = {}

\* one invocation of scan() on a new scanner
Start(cfg, pg) == StartWith(cfg, pg, None)

Init ==
  \E level \in Levels, kb \in BOOLEAN, vid \in BOOLEAN, wait \in {None, Some("#app")},
     focus \in ScanFocus, axe \in ScanAxe, videos \in ScanVideos :
    Start(ConfigInput(level, kb, vid, wait, None), Page(focus, axe, videos))

InitWalk ==
  \E focus \in FocusPages(MaxPrefix) :
    Start(ConfigInput("AA", TRUE, TRUE, Some("#app"), None),
          Page(focus, AxeResponse(<<>>), <<>>))

InitTimed ==
  \E kb \in BOOLEAN, timeout \in {None, Some(TickMs)}, focus \in ScanFocus :
    Start(ConfigInput("AA", kb, TRUE, Some("#app"), timeout),
          Page(focus, AxeResponse(<<>>), <<>>))

InitApi ==
  Start(ConfigInput("AA", TRUE, TRUE, None, None),
        Page([prefix |-> <<>>, tail |-> "body"], AxeResponse(<<>>), <<>>))

(***************************************************************************)
(* scan(): every await is a step of its own.  An interaction is issued,    *)
(* then it resolves or rejects; one that does neither leaves scan()        *)
(* awaiting it.                                                            *)
(***************************************************************************)
Interaction(op, arg) == [op |-> op, arg |-> arg]

\* a method of `vibe` is called and its promise awaited
Issue(op, arg) ==
  /\ outstanding = "none"
  /\ outstanding' = op
  /\ calls' = Append(calls, Interaction(op, arg))
  /\ sessions' = IF vibe \in DOMAIN sessions
                 THEN [sessions EXCEPT ![vibe] = Append(@, [by |-> self, op |-> op])]
                 ELSE sessions
  /\ flight' = flight \cup {[by |-> self, on |-> vibe, op |-> op]}

\* the promise the running invocation awaits settles
Settle == flight' = {f \in flight : f.by # self}

Thrown(name, phase, step) == [name |-> name, phase |-> phase, step |-> step]

\* checkVibiumAvailable() and the guard that follows it
CheckVibiumAvailable ==
  /\ pc = "start"
  /\ \E hasVibium \in BOOLEAN :
       IF hasVibium
       THEN /\ pc' = "launch"
            /\ error' = error
       ELSE /\ pc' = "threw"
            /\ error' = Some(Thrown("Error: Vibium is required", "checkVibiumAvailable", 0))
  /\ UNCHANGED <<config, page, session, outstanding, calls, i, results, result,
                 pending, ret, failure, clock, call,
                 self, suspended, vibe, sessions, flight>>

\* browser.launch({ headless: true }) is called
Launch ==
  /\ pc = "launch"
  /\ outstanding = "none"
  /\ outstanding' = "launch"
  /\ UNCHANGED <<config, page, pc, session, calls, i, results, result,
                 pending, ret, error, failure, clock, call,
                 self, suspended, vibe, sessions, flight>>

\* variant of LaunchResolved: as if the session were kept in a field of the
\* scanner (this.vibe), which both invocations read
LaunchResolvedSharedField ==
  /\ pc = "launch"
  /\ outstanding = "launch"
  /\ outstanding' = "none"
  /\ session' = "open"
  /\ sessions' = Append(sessions, <<>>)
  /\ vibe' = Len(sessions) + 1
  /\ suspended' = IF IsNone(suspended) THEN suspended
                  ELSE Some([Val(suspended) EXCEPT !.vibe = Len(sessions) + 1])
  /\ pc' = "go"
  /\ UNCHANGED <<config, page, calls, i, results, result,
                 pending, ret, error, failure, clock, call,
                 self, flight>>

\* launch resolves: a new session, held in the local constant `vibe`
LaunchResolved ==
  /\ pc = "launch"
  /\ outstanding = "launch"
  /\ outstanding' = "none"
  /\ session' = "open"
  /\ sessions' = Append(sessions, <<>>)
  /\ vibe' = Len(sessions) + 1
  /\ suspended' = suspended
  /\ pc' = "go"
  /\ UNCHANGED <<config, page, calls, i, results, result,
                 pending, ret, error, failure, clock, call,
                 self, flight>>

\* variant of LaunchRejected: as if launch were awaited inside the try block
LaunchRejectedInTry ==
  /\ pc = "launch"
  /\ outstanding = "launch"
  /\ outstanding' = "none"
  /\ pc' = "quit"
  /\ pending' = Some(Thrown("LaunchError", "launch", 0))
  /\ failure' = Some(Thrown("LaunchError", "launch", 0))
  /\ UNCHANGED <<config, page, session, calls, i, results, result,
                 ret, error, clock, call,
                 self, suspended, vibe, sessions, flight>>

\* launch rejects outside the try block: scan() rejects at once
LaunchRejected ==
  /\ pc = "launch"
  /\ outstanding = "launch"
  /\ outstanding' = "none"
  /\ pc' = "threw"
  /\ error' = Some(Thrown("LaunchError", "launch", 0))
  /\ failure' = Some(Thrown("LaunchError", "launch", 0))
  /\ UNCHANGED <<config, page, session, calls, i, results, result,
                 pending, ret, clock, call,
                 self, suspended, vibe, sessions, flight>>

Go ==
  /\ pc = "go"
  /\ Issue("go", <<config.url>>)
  /\ UNCHANGED <<config, page, pc, session, i, results, result,
                 pending, ret, error, failure, clock, call,
                 self, suspended, vibe>>

GoResolved ==
  /\ pc = "go"
  /\ outstanding = "go"
  /\ outstanding' = "none"
  /\ Settle
  /\ pc' = IF IsNone(config.waitForSelector) THEN "axe" ELSE "find"
  /\ UNCHANGED <<config, page, session, calls, i, results, result,
                 pending, ret, error, failure, clock, call,
                 self, suspended, vibe, sessions>>

Find ==
  /\ pc = "find"
  /\ Issue("find", config.waitForSelector)
  /\ UNCHANGED <<config, page, pc, session, i, results, result,
                 pending, ret, error, failure, clock, call,
                 self, suspended, vibe>>

FindResolved ==
  /\ pc = "find"
  /\ outstanding = "find"
  /\ outstanding' = "none"
  /\ Settle
  /\ pc' = "axe"
  /\ UNCHANGED <<config, page, session, calls, i, results, result,
                 pending, ret, error, failure, clock, call,
                 self, suspended, vibe, sessions>>

\* runAxeScan: the script is evaluated with the tags of the configured level
RunAxeScan ==
  /\ pc = "axe"
  /\ Issue("evaluate:axe", getWcagTags(config.wcagLevel))
  /\ UNCHANGED <<config, page, pc, session, i, results, result,
                 pending, ret, error, failure, clock, call,
                 self, suspended, vibe>>

\* where scan() goes once `result` is built
AfterAxe == 
  IF config.includeKeyboardTest THEN "press"
  ELSE IF config.includeVideoCheck THEN "videos" ELSE "quit"

\* where scan() goes once runKeyboardTest has returned
AfterKeyboard == IF config.includeVideoCheck THEN "videos" ELSE "quit"

CopyPasteFix(v) ==
  [issue |-> v.description, impact |-> v.impact,
   wcagCriteria |-> SelectSeq(v.tags, LAMBDA t : t[1] = "wcag"),
   elements |-> Len(v.nodes),
   fix |-> generateFix(v)]

\* the axe evaluation resolves: fixes are generated and `result` is built;
\* a generateFix that throws completes the try block with that error
RunAxeScanResolved ==
  /\ pc = "axe"
  /\ outstanding = "evaluate:axe"
  /\ outstanding' = "none"
  /\ Settle
  /\ LET axeResults == page.axe
         fixList == [k \in 1..Len(axeResults.violations) |->
                       CopyPasteFix(axeResults.violations[k])]
     IN  IF \E k \in 1..Len(fixList) : fixList[k].fix.outcome = "throw"
         THEN /\ pending' = Some(Thrown("TypeError", "generateFix", 0))
              /\ pc' = "quit"
              /\ UNCHANGED <<result, i, results>>
         ELSE /\ result' = [results |-> Some([url |-> config.url,
                                              wcagLevel |-> config.wcagLevel,
                                              violations |-> axeResults.violations,
                                              passes |-> axeResults.passes,
                                              incomplete |-> axeResults.incomplete,
                                              inapplicable |-> axeResults.inapplicable]),
                            fixes |-> fixList, keyboard |-> None, videos |-> None]
              /\ pc' = AfterAxe
              /\ i' = 0
              /\ results' = EmptyWalk
              /\ UNCHANGED pending
  /\ UNCHANGED <<config, page, session, calls, ret, error, failure, clock, call,
                 self, suspended, vibe, sessions>>

\* runKeyboardTest, loop body: keyboard.press('Tab')
Press ==
  /\ pc = "press"
  /\ Issue("press", <<"Tab">>)
  /\ UNCHANGED <<config, page, pc, session, i, results, result,
                 pending, ret, error, failure, clock, call,
                 self, suspended, vibe>>

PressResolved ==
  /\ pc = "press"
  /\ outstanding = "press"
  /\ outstanding' = "none"
  /\ Settle
  /\ pc' = "evaluate"
  /\ UNCHANGED <<config, page, session, calls, i, results, result,
                 pending, ret, error, failure, clock, call,
                 self, suspended, vibe, sessions>>

\* runKeyboardTest, loop body: the active-element script is evaluated
Evaluate ==
  /\ pc = "evaluate"
  /\ Issue("evaluate:activeElement", <<>>)
  /\ UNCHANGED <<config, page, pc, session, i, results, result,
                 pending, ret, error, failure, clock, call,
                 self, suspended, vibe>>

\* results.tabOrder[k]?.id
IdAt(tabOrder, k) ==
  IF IsNone(JsAt(tabOrder, k)) THEN None ELSE Some(Val(JsAt(tabOrder, k)).id)

\* the focus-trap condition, read after the push
IsTrap(tabOrder, k) ==
  /\ k > 0
  /\ IdAt(tabOrder, k) = IdAt(tabOrder, k - 1)
  /\ IdAt(tabOrder, k) # Some("")

\* the loop body after the evaluate: what `results` becomes and whether the
\* loop breaks
Step(res, k, activeElement) ==
  IF IsNone(activeElement) THEN [results |-> res, break |-> FALSE]
  ELSE LET element == Val(activeElement)
           tabOrder == Append(res.tabOrder, element)
           missing == IF ~element.hasFocusIndicator
                      THEN Append(res.missingFocusIndicators, element)
                      ELSE res.missingFocusIndicators
           trap == IsTrap(tabOrder, k)
       IN  [results |-> [tabOrder |-> tabOrder,
                         focusTraps |-> IF trap THEN Append(res.focusTraps, element)
                                        ELSE res.focusTraps,
                         missingFocusIndicators |-> missing],
            break |-> trap]

\* variant of EvaluateResolved: the loop test reads i <= 30
EvaluateResolvedOffByOne ==
  /\ pc = "evaluate"
  /\ outstanding = "evaluate:activeElement"
  /\ outstanding' = "none"
  /\ Settle
  /\ LET s == Step(results, i, ObsAt(page.focus, i))
         continues == ~s.break /\ i + 1 <= TabBudget
     IN  /\ results' = s.results
         /\ i' = IF s.break THEN i ELSE i + 1
         /\ IF continues
            THEN /\ pc' = "press"
                 /\ UNCHANGED result
            ELSE /\ pc' = AfterKeyboard
                 /\ result' = [result EXCEPT !.keyboard = Some(s.results)]
  /\ UNCHANGED <<config, page, session, calls, pending, ret, error, failure, clock, call,
                 self, suspended, vibe, sessions>>

\* the evaluate resolves: rest of the loop body, i++ and the loop test; when
\* the loop ends runKeyboardTest returns into result.keyboard
EvaluateResolved ==
  /\ pc = "evaluate"
  /\ outstanding = "evaluate:activeElement"
  /\ outstanding' = "none"
  /\ Settle
  /\ LET s == Step(results, i, ObsAt(page.focus, i))
         continues == ~s.break /\ i + 1 < TabBudget
     IN  /\ results' = s.results
         /\ i' = IF s.break THEN i ELSE i + 1
         /\ IF continues
            THEN /\ pc' = "press"
                 /\ UNCHANGED result
            ELSE /\ pc' = AfterKeyboard
                 /\ result' = [result EXCEPT !.keyboard = Some(s.results)]
  /\ UNCHANGED <<config, page, session, calls, pending, ret, error, failure, clock, call,
                 self, suspended, vibe, sessions>>

\* detectVideos: the detection script is evaluated
DetectVideos ==
  /\ pc = "videos"
  /\ Issue("evaluate:videos", <<>>)
  /\ UNCHANGED <<config, page, pc, session, i, results, result,
                 pending, ret, error, failure, clock, call,
                 self, suspended, vibe>>

DetectVideosResolved ==
  /\ pc = "videos"
  /\ outstanding = "evaluate:videos"
  /\ outstanding' = "none"
  /\ Settle
  /\ result' = [result EXCEPT !.videos = Some(page.videos)]
  /\ pc' = "quit"
  /\ UNCHANGED <<config, page, session, calls, i, results,
                 pending, ret, error, failure, clock, call,
                 self, suspended, vibe, sessions>>

InTry == {"go", "find", "evaluate:axe", "press", "evaluate:activeElement", "evaluate:videos"}

\* variant of Rejected: as if the quit were at the end of the try block and
\* not in a finally block
RejectedSkipsFinally ==
  /\ outstanding \in InTry
  /\ outstanding' = "none"
  /\ Settle
  /\ failure' = Some(Thrown("InteractionError", outstanding, i))
  /\ error' = Some(Thrown("InteractionError", outstanding, i))
  /\ pc' = "threw"
  /\ UNCHANGED <<config, page, session, calls, i, results, result,
                 pending, ret, clock, call,
                 self, suspended, vibe, sessions>>

\* an interaction awaited inside the try block rejects: nothing catches it
\* before the finally block
Rejected ==
  /\ outstanding \in InTry
  /\ outstanding' = "none"
  /\ Settle
  /\ failure' = Some(Thrown("InteractionError", outstanding, i))
  /\ pending' = Some(Thrown("InteractionError", outstanding, i))
  /\ pc' = "quit"
  /\ UNCHANGED <<config, page, session, calls, i, results, result,
                 ret, error, clock, call,
                 self, suspended, vibe, sessions>>

\* finally: vibe.quit()
Quit ==
  /\ pc = "quit"
  /\ Issue("quit", <<>>)
  /\ UNCHANGED <<config, page, pc, session, i, results, result,
                 pending, ret, error, failure, clock, call,
                 self, suspended, vibe>>

\* quit resolves: scan() completes the way the try block did
QuitResolved ==
  /\ pc = "quit"
  /\ outstanding = "quit"
  /\ outstanding' = "none"
  /\ Settle
  /\ session' = "closed"
  /\ IF IsNone(pending)
     THEN /\ pc' = "returned"
          /\ ret' = Some(result)
          /\ UNCHANGED error
     ELSE /\ pc' = "threw"
          /\ error' = pending
          /\ UNCHANGED ret
  /\ UNCHANGED <<config, page, calls, i, results, result,
                 pending, failure, clock, call,
                 self, suspended, vibe, sessions>>

\* quit rejects: its error replaces the completion of the try block
QuitRejected ==
  /\ pc = "quit"
  /\ outstanding = "quit"
  /\ outstanding' = "none"
  /\ Settle
  /\ pc' = "threw"
  /\ error' = Some(Thrown("InteractionError", "quit", i))
  /\ UNCHANGED <<config, page, session, calls, i, results, result,
                 pending, ret, failure, clock, call,
                 self, suspended, vibe, sessions>>

Next ==
  \/ CheckVibiumAvailable
  \/ Launch \/ LaunchResolved \/ LaunchRejected
  \/ Go \/ GoResolved
  \/ Find \/ FindResolved
  \/ RunAxeScan \/ RunAxeScanResolved
  \/ Press \/ PressResolved
  \/ Evaluate \/ EvaluateResolved
  \/ DetectVideos \/ DetectVideosResolved
  \/ Rejected
  \/ Quit \/ QuitResolved \/ QuitRejected

Spec == Init /\ [][Next]_vars

SpecWalk == InitWalk /\ [][Next]_vars

\* every step scan() can take is taken in the end: the code runs on to its
\* next await, and an awaited interaction resolves or rejects
SpecWalkFair == InitWalk /\ [][Next]_vars /\ WF_vars(Next)

\* time passes while scan() awaits an interaction on the session; nothing in
\* scan() reads the clock or config.timeout
Tick ==
  /\ outstanding \in InTry \cup {"quit"}
  /\ clock + TickMs <= MaxClock
  /\ clock' = clock + TickMs
  /\ UNCHANGED <<config, page, pc, session, outstanding, calls, i, results, result,
                 pending, ret, error, failure, call,
                 self, suspended, vibe, sessions, flight>>

NextTimed == Next \/ Tick

SpecTimed == InitTimed /\ [][NextTimed]_vars

(***************************************************************************)
(* Two invocations of scan() on one scanner.  Each has its own locals      *)
(* (`vibe`, `result`, the walk's `results` and `i`); they share            *)
(* this.config and the imported `browser`.  JavaScript runs one of them    *)
(* until it awaits; then the other may run.                                *)
(***************************************************************************)
\* the locals of the running invocation
Locals ==
  [self |-> self, pc |-> pc, session |-> session, outstanding |-> outstanding,
   calls |-> calls, i |-> i, results |-> results, result |-> result,
   pending |-> pending, ret |-> ret, error |-> error, failure |-> failure,
   vibe |-> vibe]

\* the locals of an invocation that has just been called
NewLocals(id) ==
  [self |-> id, pc |-> "start", session |-> "none", outstanding |-> "none",
   calls |-> <<>>, i |-> 0, results |-> EmptyWalk, result |-> EmptyResult,
   pending |-> None, ret |-> None, error |-> None, failure |-> None,
   vibe |-> 0]

\* the page of the two-invocation runs: focus is trapped on the second element
TwoFocus ==
  [prefix |-> <<Some(Element("a", TRUE)), Some(Element("b", FALSE))>>, tail |-> "trap"]

InitTwo ==
  \E kb \in BOOLEAN, vid \in BOOLEAN, wait \in {None, Some("#app")} :
    StartWith(ConfigInput("AA", kb, vid, wait, None),
              Page(TwoFocus, AxeResponse(<<>>), <<>>),
              Some(NewLocals(2)))

\* the running invocation awaits, has not begun or is over: the event loop
\* continues the other one
Switch ==
  /\ ~IsNone(suspended)
  /\ outstanding # "none" \/ pc \in {"start", "returned", "threw"}
  /\ LET other == Val(suspended)
     IN  /\ suspended' = Some(Locals)
         /\ self' = other.self
         /\ pc' = other.pc
         /\ session' = other.session
         /\ outstanding' = other.outstanding
         /\ calls' = other.calls
         /\ i' = other.i
         /\ results' = other.results
         /\ result' = other.result
         /\ pending' = other.pending
         /\ ret' = other.ret
         /\ error' = other.error
         /\ failure' = other.failure
         /\ vibe' = other.vibe
  /\ UNCHANGED <<config, page, clock, call, sessions, flight>>

NextTwo == Next \/ Switch

SpecTwo == InitTwo /\ [][NextTwo]_vars

(***************************************************************************)
(* The exported functions, called directly.                                *)
(***************************************************************************)
CallGenerateFix ==
  /\ \E id \in RuleIds, nodes \in NodeLists :
       LET violation == Violation(id, nodes)
       IN  call' = [fn |-> "generateFix", arg |-> violation, ret |-> generateFix(violation)]
  /\ UNCHANGED scanVars

CallGenerateCaptionFix ==
  /\ \E video \in VideoInfos :
       call' = [fn |-> "generateCaptionFix", arg |-> video,
                ret |-> Returned("string", generateCaptionFix(video))]
  /\ UNCHANGED scanVars

\* variant of CallGetWcagTags: as if baseTags were one array created at module
\* load, which every call pushes onto and returns
CallGetWcagTagsShared ==
  /\ \E level \in Levels :
       LET baseTags == IF call.fn \in {"getWcagTags", "push"}
                       THEN call.ret.text ELSE <<"wcag2a", "wcag21a">>
           withAA == IF level = "AA" \/ level = "AAA"
                     THEN Append3(baseTags, "wcag2aa", "wcag21aa", "wcag22aa")
                     ELSE baseTags
       IN  call' = [fn |-> "getWcagTags", arg |-> level, after |-> call.fn,
                    ret |-> Returned("array",
                                     IF level = "AAA"
                                     THEN Append2(withAA, "wcag2aaa", "wcag21aaa")
                                     ELSE withAA)]
  /\ UNCHANGED scanVars

\* getWcagTags(level) is called; `after` keeps what the caller did just before
CallGetWcagTags ==
  /\ \E level \in Levels :
       call' = [fn |-> "getWcagTags", arg |-> level, after |-> call.fn,
                ret |-> Returned("array", getWcagTags(level))]
  /\ UNCHANGED scanVars

\* the caller changes the array a getWcagTags call returned to it
CallerPushes ==
  /\ call.fn = "getWcagTags"
  /\ call' = [fn |-> "push", arg |-> call.arg,
              ret |-> Returned("array", Append(call.ret.text, "best-practice"))]
  /\ UNCHANGED scanVars

NextApi == CallGenerateFix \/ CallGenerateCaptionFix \/ CallGetWcagTags \/ CallerPushes

SpecApi == InitApi /\ [][NextApi]_vars

(***************************************************************************)
(* Properties.                                                             *)
(***************************************************************************)
Terminal == pc \in {"returned", "threw"}

Count(op) == Cardinality({k \in 1..Len(calls) : calls[k].op = op})

QuitCalled == Count("quit") > 0

WalkOps == {"press", "evaluate:activeElement"}

\* Tab presses dispatched so far
Presses == Count("press")

\* active-element evaluations that have resolved so far
Observed ==
  Count("evaluate:activeElement")
    - (IF \/ outstanding = "evaluate:activeElement"
          \/ (~IsNone(failure) /\ Val(failure).phase = "evaluate:activeElement")
       THEN 1 ELSE 0)

\* the observations at steps k - 1 and k are elements with the same id
SharesId(k) ==
  /\ k > 0
  /\ ~IsNone(ObsAt(page.focus, k))
  /\ ~IsNone(ObsAt(page.focus, k - 1))
  /\ Val(ObsAt(page.focus, k)).id = Val(ObsAt(page.focus, k - 1)).id

\* ... and that id is not empty
RepeatAt(k) == SharesId(k) /\ Val(ObsAt(page.focus, k)).id # ""

WalkReturned == ~IsNone(result.keyboard)

\* C1: once launch has returned a session, scan() neither returns nor throws
\* without quit() having been called on it, whichever phase ended the scan.
C1_SessionReleased ==
  (Terminal /\ session # "none") => (QuitCalled /\ calls[Len(calls)].op = "quit")

\* C1 witness: scan() threw because an evaluate of the keyboard walk
\* rejected, and quit() was called on the way out
C1_Witness ==
  /\ pc = "threw"
  /\ ~IsNone(failure)
  /\ Val(failure).phase = "evaluate:activeElement"
  /\ QuitCalled

\* C2: whenever the observation of a completed step k > 0 is an element with
\* the same non-empty id as the observation of step k - 1, that element is
\* in focusTraps and no Tab press follows step k.
C2_TrapDetected ==
  \A k \in 1..(TabBudget - 1) :
    (Observed > k /\ RepeatAt(k)) =>
      /\ Presses = k + 1
      /\ Val(ObsAt(page.focus, k)) \in Range(results.focusTraps)

\* C3: when the first consecutive repetition of a non-empty id is at steps
\* k - 1 and k, the walk returns after k + 1 Tab presses with the first
\* k + 1 observations as tabOrder and its last element as the only trap.
C3_HaltsAtFirstRepeat ==
  \A k \in 1..(TabBudget - 1) :
    (WalkReturned /\ RepeatAt(k) /\ \A j \in 1..(k - 1) : ~RepeatAt(j)) =>
      LET kb == Val(result.keyboard)
      IN  /\ Presses = k + 1
          /\ Len(kb.tabOrder) = k + 1
          /\ \A j \in 0..k : ObsAt(page.focus, j) = Some(kb.tabOrder[j + 1])
          /\ kb.focusTraps = <<kb.tabOrder[Len(kb.tabOrder)]>>

\* C4: a walk over observations of which no two consecutive ones share an id
\* returns a tabOrder as long as the step budget and no focus trap.
C4_ExhaustedWalk ==
  (WalkReturned /\ \A k \in 1..(TabBudget - 1) : ~SharesId(k)) =>
    /\ Len(Val(result.keyboard).tabOrder) = TabBudget
    /\ Val(result.keyboard).focusTraps = <<>>

\* C5: when a Tab press or an active-element evaluate of the walk rejects,
\* the walk still returns what it gathered (result.keyboard is the partial
\* result) and the rejection is not what the try block completes with.
C5_AbortedWalkReturnsPartial ==
  (~IsNone(failure) /\ Val(failure).phase \in WalkOps) =>
    /\ result.keyboard = Some(results)
    /\ pending # failure

\* C6: once more than config.timeout milliseconds have passed, a scan() that
\* launched a session has ended and quit() has been called on the session.
C6_TimeoutBoundsScan ==
  (clock > config.timeout /\ session # "none") => (Terminal /\ QuitCalled)

\* C7: while no session exists no interaction is issued, and a scan() that
\* ends without a session has thrown and resolved to no report.
C7_NoSessionNoInteraction ==
  session = "none" =>
    /\ calls = <<>>
    /\ IsNone(ret)
    /\ result = EmptyResult
    /\ Terminal => (pc = "threw" /\ ~IsNone(error))

\* C7 witness: browser.launch() rejected and scan() threw
C7_Witness ==
  /\ pc = "threw"
  /\ session = "none"
  /\ ~IsNone(error)
  /\ Val(error).phase = "launch"

\* C8: generateFix called with a rule id that is no key of the template
\* table returns the generic text with the description and the help URL in
\* it, and does not throw.
C8_UnknownRuleFallsBack ==
  (call.fn = "generateFix" /\ call.arg.id \notin FixKeys) =>
    /\ call.ret.outcome = "return"
    /\ call.ret.type = "string"
    /\ call.arg.description \in Range(call.ret.text)
    /\ call.arg.helpUrl \in Range(call.ret.text)
    /\ "/* Manual fix required for: " \in Range(call.ret.text)

\* the fields of the first node the template of a rule id interpolates
FieldsUsed(id) ==
  IF id = "color-contrast" THEN {"target", "data"}
  ELSE IF id \in {"label", "image-alt", "button-name", "link-name"} THEN {"html"}
  ELSE IF id \in FixKeys THEN {}
  ELSE {"html"}

\* the fields of the first node that are absent
FieldsMissing(violation) ==
  IF Len(violation.nodes) = 0 THEN {"html", "target", "data"}
  ELSE {f \in {"html", "target", "data"} :
          \/ f = "html" /\ IsNone(violation.nodes[1].html)
          \/ f = "target" /\ IsNone(violation.nodes[1].target)
          \/ f = "data" /\ IsNone(violation.nodes[1].data)}

\* C9: generateFix called with a violation whose first node is absent or
\* lacks html, target or data does not throw, and when its template uses a
\* missing field the text carries the placeholder "unknown".
C9_MissingFieldsBecomeUnknown ==
  (call.fn = "generateFix" /\ FieldsMissing(call.arg) # {}) =>
    /\ call.ret.outcome = "return"
    /\ (call.ret.type = "string" /\ FieldsUsed(call.arg.id) \cap FieldsMissing(call.arg) # {})
         => "unknown" \in Range(call.ret.text)

\* C10: no caption remediation is produced for a media element that has a
\* track: generateCaptionFix yields no track markup for it.
C10_NoFixForCaptioned ==
  (call.fn = "generateCaptionFix" /\ call.arg.hasTrack) =>
    "    kind=\"captions\"" \notin Range(call.ret.text)

\* the conformance levels below a level, in the order A < AA < AAA
Below(level) ==
  IF level = "AAA" THEN {"A", "AA"} ELSE IF level = "AA" THEN {"A"} ELSE {}

\* C11: every tag getWcagTags returns for a level below L is among the tags
\* it returns for L.
C11_TagsMonotone ==
  call.fn = "getWcagTags" =>
    \A lower \in Below(call.arg) :
      Range(getWcagTags(lower)) \subseteq Range(call.ret.text)

\* C11 witness: getWcagTags("AAA") returned, with the Level-A tags in it
C11_Witness ==
  /\ call.fn = "getWcagTags"
  /\ call.arg = "AAA"
  /\ Below(call.arg) = {"A", "AA"}
  /\ "wcag2a" \in Range(call.ret.text)

\* C12: getWcagTags returns exactly the two A tags for A, those followed by
\* the three AA tags for AA, and those followed by the two AAA tags for AAA,
\* also when the caller has changed the list an earlier call returned.
C12_ExactTags ==
  call.fn = "getWcagTags" =>
    call.ret.text =
      CASE call.arg = "A" -> <<"wcag2a", "wcag21a">>
        [] call.arg = "AA" -> <<"wcag2a", "wcag21a", "wcag2aa", "wcag21aa", "wcag22aa">>
        [] call.arg = "AAA" -> <<"wcag2a", "wcag21a", "wcag2aa", "wcag21aa", "wcag22aa",
                                 "wcag2aaa", "wcag21aaa">>

\* C12 witness: getWcagTags("AAA") returned right after the caller pushed
\* onto the list of an earlier call
C12_Witness ==
  /\ call.fn = "getWcagTags"
  /\ call.after = "push"
  /\ call.arg = "AAA"
  /\ Len(call.ret.text) = 7

Cite(number, level) == [number |-> number, level |-> level]

\* the success criteria a line of generated text cites: number, and level
\* ("" when the line names none)
Citations(line) ==
  CASE line = "/* WCAG: 1.4.3 Contrast (Minimum) Level AA */" -> {Cite("1.4.3", "AA")}
    [] line = "<!-- WCAG: 1.3.1 Info and Relationships, 4.1.2 Name, Role, Value -->" ->
         {Cite("1.3.1", ""), Cite("4.1.2", "")}
    [] line = "<!-- WCAG: 1.1.1 Non-text Content Level A -->" -> {Cite("1.1.1", "A")}
    [] line = "<!-- WCAG: 4.1.2 Name, Role, Value Level A -->" -> {Cite("4.1.2", "A")}
    [] line = "<!-- WCAG: 2.4.4 Link Purpose, 4.1.2 Name, Role, Value -->" ->
         {Cite("2.4.4", ""), Cite("4.1.2", "")}
    [] line = "<!-- WCAG: 3.1.1 Language of Page Level A -->" -> {Cite("3.1.1", "A")}
    [] line = "<!-- WCAG: 1.3.1 Info and Relationships -->" -> {Cite("1.3.1", "")}
    [] line = "<!-- WCAG: 2.4.3 Focus Order Level A -->" -> {Cite("2.4.3", "A")}
    [] line = "<!-- WCAG: 2.5.8 Target Size (Minimum) Level AA -->" -> {Cite("2.5.8", "AA")}
    [] OTHER -> {}

\* C13: every text generateFix returns has a line that cites a WCAG success
\* criterion, and every criterion cited is given with its conformance level.
C13_CitesCriterionAndLevel ==
  (call.fn = "generateFix" /\ call.ret.outcome = "return" /\ call.ret.type = "string") =>
    /\ \E k \in 1..Len(call.ret.text) : Citations(call.ret.text[k]) # {}
    /\ \A k \in 1..Len(call.ret.text) :
         \A c \in Citations(call.ret.text[k]) : c.level # ""

\* runKeyboardTest is running
InWalk == pc \in {"press", "evaluate"}

\* C15: a walk never dispatches more than 30 Tab presses, and a walk that
\* has started ends, whatever the page does.
C15_WalkTerminates == [](Presses <= TabBudget) /\ (InWalk ~> ~InWalk)

\* C15 witness: on a page where focus never lands on an element the walk
\* has returned after exactly 30 Tab presses
C15_Witness ==
  /\ page.focus.tail = "body"
  /\ \A k \in 0..(TabBudget - 1) : IsNone(ObsAt(page.focus, k))
  /\ WalkReturned
  /\ Presses = TabBudget

\* C16: every entry of focusTraps is an element of tabOrder that directly
\* follows, in tabOrder, an element with the same non-empty id.
C16_TrapsAreRepeats ==
  \A t \in 1..Len(results.focusTraps) :
    \E k \in 2..Len(results.tabOrder) :
      /\ results.tabOrder[k] = results.focusTraps[t]
      /\ results.tabOrder[k - 1].id = results.tabOrder[k].id
      /\ results.tabOrder[k].id # ""

\* the invocations of scan(): the running one and the suspended one
Invocations == {Locals} \cup (IF IsNone(suspended) THEN {} ELSE {Val(suspended)})

\* may interaction b be the one issued right after interaction a, in an
\* invocation whose try block completed with `failed` or without
Follows(a, b, failed) ==
  CASE a = "go" ->
         \/ b = "find" /\ ~IsNone(config.waitForSelector)
         \/ b = "evaluate:axe" /\ IsNone(config.waitForSelector)
         \/ b = "quit" /\ failed
    [] a = "find" ->
         \/ b = "evaluate:axe"
         \/ b = "quit" /\ failed
    [] a = "evaluate:axe" ->
         \/ b = "press" /\ config.includeKeyboardTest
         \/ b = "evaluate:videos" /\ ~config.includeKeyboardTest /\ config.includeVideoCheck
         \/ b = "quit" /\ (failed \/ (~config.includeKeyboardTest /\ ~config.includeVideoCheck))
    [] a = "press" ->
         \/ b = "evaluate:activeElement"
         \/ b = "quit" /\ failed
    [] a = "evaluate:activeElement" ->
         \/ b = "press"
         \/ b = "evaluate:videos" /\ config.includeVideoCheck
         \/ b = "quit" /\ (failed \/ ~config.includeVideoCheck)
    [] a = "evaluate:videos" -> b = "quit"
    [] OTHER -> FALSE

\* the interactions of one invocation were issued in the order of scan()
InOrder(f) ==
  /\ Len(f.calls) > 0 => f.calls[1].op = "go"
  /\ \A k \in 1..(Len(f.calls) - 1) :
       Follows(f.calls[k].op, f.calls[k + 1].op, ~IsNone(f.pending))

\* C17: in every invocation of scan() the interactions are issued one at a
\* time and in the order go, find (if waitForSelector), axe evaluation, Tab
\* press and active-element evaluation in turn (if includeKeyboardTest),
\* video detection (if includeVideoCheck), quit; nothing is issued on a
\* session after its quit, and no session is used by two invocations.
C17_SequentialAndExclusive ==
  /\ \A f \in Invocations : InOrder(f)
  /\ \A id \in {1, 2} : Cardinality({f \in flight : f.by = id}) <= 1
  /\ \A f \in flight : f.on \in DOMAIN sessions
  /\ \A s \in DOMAIN sessions :
       /\ Cardinality({f \in flight : f.on = s}) <= 1
       /\ \A k \in 1..Len(sessions[s]) :
            /\ sessions[s][k].op = "quit" => k = Len(sessions[s])
            /\ sessions[s][k].by = sessions[s][1].by

\* two invocations each await an interaction on their own session at the
\* same time, one in the keyboard walk and one quitting
C17_Witness ==
  /\ Len(sessions) = 2
  /\ \E f, g \in flight :
       /\ f.by # g.by
       /\ f.op = "quit"
       /\ g.op = "evaluate:activeElement"
====
